---- MODULE Spec2Model ----
(***************************************************************************)
(* ScholarCite: the editing session of src/App.tsx as a state machine.     *)
(*                                                                         *)
(* State is the React state of the App component (docText, bibEntries,     *)
(* historyState, selection, the in-flight flags), the debounce timer of    *)
(* debounceRef, and the closures of the asynchronous handlers that are     *)
(* suspended at an await.  Every event handler runs to completion and is   *)
(* followed by a render, so a handler is one action; an async handler is   *)
(* one action up to its await and one action for its continuation, which   *)
(* reads the values its closure captured when the handler was started.     *)
(*                                                                         *)
(* Strings are sequences of one-character strings.                         *)
(***************************************************************************)
EXTENDS Integers, Sequences, FiniteSets, TLC

VARIABLES
    docText,          \* App.tsx:17
    bibEntries,       \* App.tsx:18
    historyState,     \* App.tsx:23  [history, index]; index is 0-based
    timers,           \* the browser's pending timeouts (set of closures)
    debounceRef,      \* App.tsx:30  id of the timeout last armed, or NoTimer
    selection,        \* App.tsx:33
    isFormatting,     \* App.tsx:49
    pendingFormat,    \* closure of processCitation suspended at line 188
    isProcessingFile, \* App.tsx:50
    pendingImport,    \* closure of handleFileUpload suspended at line 246
    nextId,           \* number of crypto.randomUUID() values drawn so far
    showTooltip,      \* App.tsx:34
    isModalOpen,      \* App.tsx:42
    isLibraryOpen,    \* App.tsx:43
    searchState,      \* App.tsx:44  [isSearching, results, error]
    pendingSearches,  \* handleCiteClick calls suspended at line 168
    searchLog,        \* the search issued last and the one searchState shows
    library,          \* App.tsx:20
    API_KEY,          \* process.env.API_KEY is set (geminiService.ts:16, 90)
    crashed,          \* a render threw: React unmounted the tree
    events,           \* number of user events handled so far
    budget,           \* number of user events the session is followed for
    lastOp,           \* the handler that ran last (history variable)
    pre,              \* index, log length and pending texts when it started
    applied           \* a text function run on its own: [fn, kind, arg, result]

vars == <<docText, bibEntries, historyState, timers, debounceRef, selection,
          isFormatting, pendingFormat, isProcessingFile, pendingImport,
          nextId, showTooltip, isModalOpen, isLibraryOpen, searchState,
          pendingSearches, searchLog, library, API_KEY, crashed, events,
          budget, lastOp, pre, applied>>

\* the state of the editing session
appVars == <<docText, bibEntries, historyState, timers, debounceRef, selection,
             isFormatting, pendingFormat, isProcessingFile, pendingImport,
             nextId, showTooltip, isModalOpen, isLibraryOpen, searchState,
             pendingSearches, searchLog, library, API_KEY, crashed, events,
             budget, lastOp, pre>>

\* the two dialogs
overlays == <<isModalOpen, isLibraryOpen>>

\* the search of the citation dialog; searches are numbered 1, 2, ... in the
\* order handleCiteClick issues them (history variable searchLog)
searchVars == <<searchState, pendingSearches, searchLog>>

\* ------------------------------------------------------------------ bounds

\* the number of user events (keystrokes, clicks, file choices) in a session
MaxEvents == 6

\* the number of user events in a session of selecting, citing, undo and redo
MaxCiteEvents == 8

\* ------------------------------------------------------------- JS strings

\* null, for the state that holds an object or null
Null == [isNull |-> TRUE]
\* debounceRef.current before a timeout was armed (timeout ids are positive)
NoTimer == 0
\* the value of a property that a parsed JSON object does not have
Undefined == "undefined"

Min(a, b) == IF a < b THEN a ELSE b
Max(a, b) == IF a > b THEN a ELSE b

\* String.prototype.substring(a, b): both ends clamped to [0, length]
Substring(s, a, b) ==
    LET lo == Max(0, Min(Min(a, b), Len(s)))
        hi == Max(0, Min(Max(a, b), Len(s)))
    IN  SubSeq(s, lo + 1, hi)

\* String.prototype.substring(a): to the end of the string
SubstringFrom(s, a) == Substring(s, a, Len(s))

\* the characters String.prototype.trim() strips
WhiteSpace == {" ", "\t", "\n"}

RECURSIVE TrimStart(_)
TrimStart(s) ==
    IF s # <<>> /\ Head(s) \in WhiteSpace THEN TrimStart(Tail(s)) ELSE s

RECURSIVE TrimEnd(_)
TrimEnd(s) ==
    IF s # <<>> /\ s[Len(s)] \in WhiteSpace
    THEN TrimEnd(SubSeq(s, 1, Len(s) - 1)) ELSE s

\* String.prototype.trim()
Trim(s) == TrimEnd(TrimStart(s))

\* before.endsWith(" ")
EndsWithSpace(s) == s # <<>> /\ s[Len(s)] = " "

\* ------------------------------------------------------------- characters

\* A character is a one-character string; a code point outside ASCII is the
\* string of its name, "U+1D452".

\* [A-Z]
UpperCaseLetters ==
    <<"A", "B", "C", "D", "E", "F", "G", "H", "I", "J", "K", "L", "M", "N",
      "O", "P", "Q", "R", "S", "T", "U", "V", "W", "X", "Y", "Z">>

\* [a-z]
LowerCaseLetters ==
    <<"a", "b", "c", "d", "e", "f", "g", "h", "i", "j", "k", "l", "m", "n",
      "o", "p", "q", "r", "s", "t", "u", "v", "w", "x", "y", "z">>

UpperCase == {UpperCaseLetters[i] : i \in 1..26}

LowerCase == {LowerCaseLetters[i] : i \in 1..26}

\* \d
Digits == {"0", "1", "2", "3", "4", "5", "6", "7", "8", "9"}

\* \s of a regular expression: white space and line terminators
RegexWhiteSpace ==
    {" ", "\t", "\n", "\r", "\f", "U+000B", "U+00A0", "U+FEFF", "U+2028",
     "U+2029"}

\* the characters "." of a regular expression does not match
LineTerminators == {"\n", "\r", "U+2028", "U+2029"}

\* String.prototype.toLowerCase() on one character
ToLowerCaseChar(c) ==
    IF c \in UpperCase
    THEN LowerCaseLetters[CHOOSE i \in 1..26 : UpperCaseLetters[i] = c]
    ELSE c

\* String.prototype.toLowerCase()
toLowerCase(s) == [i \in 1..Len(s) |-> ToLowerCaseChar(s[i])]

\* String.prototype.startsWith(c) && endsWith(c) for a one-character c
StartsAndEndsWith(s, c) == s # <<>> /\ s[1] = c /\ s[Len(s)] = c

\* lit occurs in s at position p (positions count from 1)
LiteralAt(s, p, lit) ==
    /\ p + Len(lit) - 1 <= Len(s)
    /\ SubSeq(s, p, p + Len(lit) - 1) = lit

RECURSIVE ReplaceAllFrom(_, _, _, _)
\* s.replace(/lit/g, rep) from position p on: occurrences left to right
ReplaceAllFrom(s, p, lit, new) ==
    IF p > Len(s) THEN <<>>
    ELSE IF LiteralAt(s, p, lit)
         THEN new \o ReplaceAllFrom(s, p + Len(lit), lit, new)
         ELSE <<s[p]>> \o ReplaceAllFrom(s, p + 1, lit, new)

\* s.replace(/lit/g, rep) for a regular expression that is a literal
ReplaceAll(s, lit, new) == ReplaceAllFrom(s, 1, lit, new)

RECURSIVE SplitLiteralFrom(_, _, _, _)
\* s.split(/lit/g) with the piece in progress starting at p, looking at q
SplitLiteralFrom(s, p, q, lit) ==
    IF q > Len(s) THEN <<SubSeq(s, p, Len(s))>>
    ELSE IF LiteralAt(s, q, lit)
         THEN <<SubSeq(s, p, q - 1)>>
                  \o SplitLiteralFrom(s, q + Len(lit), q + Len(lit), lit)
         ELSE SplitLiteralFrom(s, p, q + 1, lit)

\* s.split(/lit/g) for a regular expression that is a literal
SplitLiteral(s, lit) == SplitLiteralFrom(s, 1, 1, lit)

RECURSIVE Concat(_)
\* the concatenation of a sequence of strings
Concat(ss) == IF ss = <<>> THEN <<>> ELSE Head(ss) \o Concat(Tail(ss))

\* ----------------------------------------------------------------- inputs

\* INITIAL_DOCUMENT_TEXT, cut to its first word
INITIAL_DOCUMENT_TEXT == <<"G", "l", "o", "b", "a", "l">>

\* values of e.target.value delivered to handleTextChange
TypedTexts ==
    { INITIAL_DOCUMENT_TEXT \o <<" ">>, INITIAL_DOCUMENT_TEXT \o <<"\n">> }

\* textarea.selectionStart values tried by handleMouseUp
SelectionStarts == {0}

\* textarea.selectionEnd values tried by handleMouseUp
SelectionEnds == {0, 6, 7}

\* line 144: a selection is kept when its trimmed text is longer than this
MinSelectionLength == 5

\* a source as the search returns it: no id (types, part_001:270)
SearchSource ==
    [title |-> "T1", author |-> <<"D", "o", "e">>,
     year |-> <<"2", "0", "2", "4">>, publication |-> "P1", url |-> "u1"]

\* the results a well-formed search response carries (geminiService.ts:78-82)
SearchResults ==
    { [suggested |-> <<SearchSource>>, related |-> <<>>],
      [suggested |-> <<>>, related |-> <<>>] }

\* values submitted in ManualEntryForm: the title of the search's source
\* under another url
ManualSources ==
    { [title |-> "T1", author |-> <<"D", "o", "e">>,
       year |-> <<"2", "0", "2", "4">>, publication |-> "P1", url |-> "u2"] }

\* Source objects before an id is assigned
Sources == {SearchSource} \cup ManualSources

\* new Date(): the time of the event being handled, counted in user events
Now == events

\* mutant: the source is stored with its id and without a date
WithIdOnly(source, id) ==
    [title |-> source.title, author |-> source.author, year |-> source.year,
     publication |-> source.publication, url |-> source.url, id |-> id]

\* { ...source, id, dateAdded: new Date().toISOString() }
WithId(source, id) ==
    [title |-> source.title, author |-> source.author, year |-> source.year,
     publication |-> source.publication, url |-> source.url, id |-> id,
     dateAdded |-> Now]

RECURSIVE Str(_)
\* the string of a sequence of characters, as a template literal joins them
Str(chars) == IF chars = <<>> THEN "" ELSE Head(chars) \o Str(Tail(chars))

\* geminiService.ts:168: `(${source.author}, ${source.year})`
FallbackInText(source) ==
    <<"(">> \o source.author \o <<",", " ">> \o source.year \o <<")">>

\* geminiService.ts:169
FallbackBibliography(source) ==
    Str(source.author) \o " (" \o Str(source.year) \o "). " \o source.title
        \o ". " \o source.publication \o ". Available at: " \o source.url

\* result.inText values the formatting call resolves with
InTexts == { <<"(", "A", ")">> }

\* result.bibliography strings the formatting call resolves with
BibTexts == {"Adams (2020)", "Brown (2021)"}

\* a File: its name, whether an extractor can read its content, and the
\* text extracted from it
File(name, readable, text) == [name |-> name, readable |-> readable, text |-> text]

\* files chosen in the file input during a session
ImportFiles ==
    { File(<<"a", ".", "t", "x", "t">>, TRUE, INITIAL_DOCUMENT_TEXT),
      File(<<"a", ".", "d", "o", "c", "x">>, FALSE, <<>>),
      File(<<"a", ".", "x", "y", "z">>, TRUE, <<>>) }

\* ----------------------------------------------------- bibliography order

\* a.text.localeCompare(b.text) on the texts of the model (b is coerced to
\* a string, so undefined compares as "undefined")
CollationRank(t) ==
    CASE t = "Adams (2020)" -> 1
      [] t = "Brown (2021)" -> 2
      [] t = "Doe (2024). T1. P1. Available at: u1" -> 3
      [] t = "Doe (2024). T1. P1. Available at: u2" -> 4
      [] OTHER -> 5

localeCompare(a, b) ==
    IF CollationRank(a) < CollationRank(b) THEN -1
    ELSE IF CollationRank(a) > CollationRank(b) THEN 1 ELSE 0

\* one step of a stable sort: e is placed behind every entry not after it
InsertEntry(sorted, e) ==
    LET k == Cardinality({i \in 1..Len(sorted) :
                            localeCompare(sorted[i].text, e.text) <= 0})
    IN  SubSeq(sorted, 1, k) \o <<e>> \o SubSeq(sorted, k + 1, Len(sorted))

\* mutant: the new entry is appended and the array is left unsorted
sortByTextSkipped(entries) == entries

RECURSIVE sortByText(_)
\* Array.prototype.sort((a, b) => a.text.localeCompare(b.text)), stable
sortByText(entries) ==
    IF entries = <<>> THEN <<>>
    ELSE InsertEntry(sortByText(SubSeq(entries, 1, Len(entries) - 1)),
                     entries[Len(entries)])

\* ---------------------------------------------------------------- history

\* JSON.stringify(bib): ids, texts and sources in order; a property whose
\* value is undefined is left out
jsonStringify(bib) ==
    [i \in 1..Len(bib) |->
        IF bib[i].text = Undefined
        THEN <<"id", bib[i].id, "source", bib[i].source>>
        ELSE <<"id", bib[i].id, "text", bib[i].text, "source", bib[i].source>>]

\* prev.history[prev.index]
CurrentSnapshot(h) == h.history[h.index + 1]

\* mutant: index is set to the new length, one past the last snapshot
saveToHistoryIndexPastEnd(prev, text, bib) ==
    LET current == CurrentSnapshot(prev)
    IN  IF current.text = text /\ jsonStringify(current.bib) = jsonStringify(bib)
        THEN prev
        ELSE LET newHistory == Append(SubSeq(prev.history, 1, prev.index + 1),
                                      [text |-> text, bib |-> bib])
             IN  [history |-> newHistory, index |-> Len(newHistory)]

\* mutant: the snapshot is pushed onto the whole log, redo entries included
saveToHistoryNoTruncate(prev, text, bib) ==
    LET current == CurrentSnapshot(prev)
    IN  IF current.text = text /\ jsonStringify(current.bib) = jsonStringify(bib)
        THEN prev
        ELSE LET newHistory == Append(prev.history, [text |-> text, bib |-> bib])
             IN  [history |-> newHistory, index |-> Len(newHistory) - 1]

\* mutant: a push is skipped as soon as the text is that of the current snapshot
saveToHistoryTextOnly(prev, text, bib) ==
    LET current == CurrentSnapshot(prev)
    IN  IF current.text = text
        THEN prev
        ELSE LET newHistory == Append(SubSeq(prev.history, 1, prev.index + 1),
                                      [text |-> text, bib |-> bib])
             IN  [history |-> newHistory, index |-> Len(newHistory) - 1]

\* mutant: the snapshot at index is replaced by the candidate
saveToHistoryInPlace(prev, text, bib) ==
    LET current == CurrentSnapshot(prev)
    IN  IF current.text = text /\ jsonStringify(current.bib) = jsonStringify(bib)
        THEN prev
        ELSE [history |-> [prev.history EXCEPT ![prev.index + 1] =
                                                   [text |-> text, bib |-> bib]],
              index |-> prev.index]

\* mutant: the candidate is pushed without being compared with the current
\* snapshot
saveToHistoryAlwaysPushes(prev, text, bib) ==
    LET newHistory == Append(SubSeq(prev.history, 1, prev.index + 1),
                             [text |-> text, bib |-> bib])
    IN  [history |-> newHistory, index |-> Len(newHistory) - 1]

\* the updater of saveToHistory applied to prev
saveToHistory(prev, text, bib) ==
    LET current == CurrentSnapshot(prev)
    IN  IF current.text = text /\ jsonStringify(current.bib) = jsonStringify(bib)
        THEN prev
        ELSE LET newHistory == Append(SubSeq(prev.history, 1, prev.index + 1),
                                      [text |-> text, bib |-> bib])
             IN  [history |-> newHistory, index |-> Len(newHistory) - 1]

\* disabled={historyState.index <= 0}
UndoDisabled == historyState.index <= 0

\* disabled={historyState.index >= historyState.history.length - 1}
RedoDisabled == historyState.index >= Len(historyState.history) - 1

\* mutant: the timeout armed before stays pending
clearTimeoutKeeps(ts, id) == ts

\* clearTimeout(id): the timeout with that id no longer fires
clearTimeout(ts, id) == {t \in ts : t.id # id}

\* mutant: the handler pushes without cancelling the pending timeout
cancelDebounceSkipped(ts, ref) == ts

\* if (debounceRef.current) clearTimeout(debounceRef.current)
cancelDebounce(ts, ref) == IF ref # NoTimer THEN clearTimeout(ts, ref) ELSE ts

\* mutant: the index moves back but the current snapshot is restored
UndoResultKeepsSnapshot(h) ==
    [index |-> h.index - 1, snapshot |-> h.history[h.index + 1]]

\* lines 101-106: the index and the snapshot handleUndo moves to
UndoResult(h) ==
    LET newIndex == h.index - 1
    IN  [index |-> newIndex, snapshot |-> h.history[newIndex + 1]]

\* mutant: the index moves forward but the current snapshot is restored
RedoResultKeepsSnapshot(h) ==
    [index |-> h.index + 1, snapshot |-> h.history[h.index + 1]]

\* lines 114-119: the index and the snapshot handleRedo moves to
RedoResult(h) ==
    LET newIndex == h.index + 1
    IN  [index |-> newIndex, snapshot |-> h.history[newIndex + 1]]

\* the id setTimeout returns: one no pending timeout has
FreshTimerId(ts) == CHOOSE n \in 1..(Cardinality(ts) + 1) : \A t \in ts : t.id # n

\* ------------------------------------------------------- citation insertion

\* what formatCitation resolves with: inText is always a string, bibliography
\* is the parsed property, which the response may lack
FormatResults ==
    [inText : InTexts, bibliography : BibTexts \cup {Undefined}]

\* the promise of formatCitation rejected (geminiService.ts:90-92)
Rejected == [rejected |-> TRUE]

\* geminiService.ts:164-171: what the catch block returns
FormatFallback(source) ==
    [inText |-> FallbackInText(source), bibliography |-> FallbackBibliography(source)]

\* formatCitation: the ways the call can settle; without a key it throws
\* before the try block, with one every failure inside yields the fallback
formatCitation(source, key) ==
    IF ~key THEN {Rejected}
    ELSE FormatResults \cup {FormatFallback(source)}

\* results: { suggested: [], related: [] }
NoResults == [suggested |-> <<>>, related |-> <<>>]

\* searchForSources: the ways the call can settle; without a key it throws
\* before the try block, with one every failure inside (the request throws,
\* the response is not JSON) is caught and empty results are returned
searchForSources(key) ==
    IF ~key THEN {Rejected}
    ELSE [failed : {FALSE}, results : SearchResults]
         \cup {[failed |-> TRUE, results |-> NoResults]}

\* CitationModal.tsx:118-175: the source cards the citation dialog shows
ShownResults ==
    IF isModalOpen /\ ~searchState.isSearching /\ searchState.error = Null
    THEN {searchState.results.suggested[i] : i \in 1..Len(searchState.results.suggested)}
         \cup {searchState.results.related[i] : i \in 1..Len(searchState.results.related)}
    ELSE {}

\* part_001:203-254: the sources the library dialog lists
ListedSources ==
    IF isLibraryOpen THEN {library[i] : i \in 1..Len(library)} ELSE {}

\* line 225: library.some(s => s.url === source.url || s.title === source.title)
InLibrary(lib, source) ==
    \E i \in 1..Len(lib) : lib[i].url = source.url \/ lib[i].title = source.title

\* crypto.randomUUID() for a library entry: an id no entry has
FreshLibraryId(lib) ==
    LET ids == {lib[i].id : i \in 1..Len(lib)}
    IN  IF ids = {} THEN 1
        ELSE 1 + CHOOSE m \in ids : \A k \in ids : k <= m

\* line 236: prev.filter(s => s.id !== id)
removeById(lib, id) == SelectSeq(lib, LAMBDA s : s.id # id)

\* mutant: the citing controls stay enabled during a formatting call
CiteDisabledNever(formatting) == FALSE

\* disabled={isFormatting} of "Cite this" (CitationModal.tsx:70) and "Cite in
\* Doc" (part_001:245); the card's text calls onSelect only if !isFormatting
CiteDisabled(formatting) == formatting

\* line 173: the message handleCiteClick sets when the search call rejects
SearchError == [message |-> "Failed to fetch sources. Please check your API connection."]

\* mutant: a space is also placed between the citation and the text after it
InsertedTextSpacedAfter(text, sel, inText) ==
    LET before == Substring(text, 0, sel.end)
        after == SubstringFrom(text, sel.end)
        spacer == IF EndsWithSpace(before) THEN <<>> ELSE <<" ">>
    IN  before \o spacer \o inText \o <<" ">> \o after

\* lines 190-193: the text with the citation spliced in at selection.end
InsertedText(text, sel, inText) ==
    LET before == Substring(text, 0, sel.end)
        after == SubstringFrom(text, sel.end)
        spacer == IF EndsWithSpace(before) THEN <<>> ELSE <<" ">>
    IN  before \o spacer \o inText \o after

\* line 198: bibEntries.some(e => e.text === result.bibliography)
BibExists(bib, text) == \E i \in 1..Len(bib) : bib[i].text = text

\* lines 201-206: the bibliography with the new entry, sorted
WithNewEntry(bib, id, text, source) ==
    sortByText(Append(bib, [id |-> id, text |-> text, source |-> source]))

\* ---------------------------------------------------------------- import

\* file.name.split('.').pop()?.toLowerCase(): split returns at least one
\* piece, so a name without a dot is its own extension
Extension(name) ==
    LET pieces == SplitLiteral(name, <<".">>)
    IN  toLowerCase(pieces[Len(pieces)])

\* accept=".docx,.doc,.pdf,.txt,.pptx" of the file input (App.tsx:360)
AcceptedExtensions ==
    { <<"d", "o", "c", "x">>, <<"d", "o", "c">>, <<"p", "d", "f">>,
      <<"t", "x", "t">>, <<"p", "p", "t", "x">> }

\* the extractor each branch of parseDocument calls (lines 23-30)
Extractors ==
    [e \in {<<"d", "o", "c", "x">>, <<"p", "d", "f">>, <<"p", "p", "t", "x">>,
            <<"t", "x", "t">>} |->
        CASE e = <<"d", "o", "c", "x">> -> "parseDocx"
          [] e = <<"p", "d", "f">> -> "parsePdf"
          [] e = <<"p", "p", "t", "x">> -> "parsePptx"
          [] e = <<"t", "x", "t">> -> "file.text"]

\* the message of the error an extractor throws (lines 43, 65, 107; the
\* rejection of file.text() carries the browser's message)
ExtractorError(extractor) ==
    CASE extractor = "parseDocx" -> "Failed to read Word document."
      [] extractor = "parsePdf" -> "Failed to read PDF document."
      [] extractor = "parsePptx" -> "Failed to read PowerPoint presentation."
      [] extractor = "file.text" -> "NotReadableError"

\* mutant: a file of any extension is read as text
parseDocumentAnyFile(file) ==
    [ok |-> TRUE, text |-> file.text, extractor |-> "file.text", message |-> ""]

\* parseDocument: the extracted text, or the error thrown for an unsupported
\* extension (line 32) or by the extractor (lines 43, 65, 107)
parseDocument(file) ==
    LET extension == Extension(file.name)
    IN  IF extension \notin DOMAIN Extractors
        THEN [ok |-> FALSE, text |-> <<>>, extractor |-> "none",
              message |-> "Unsupported file type: ." \o Str(extension)]
        ELSE IF ~file.readable
        THEN [ok |-> FALSE, text |-> <<>>, extractor |-> Extractors[extension],
              message |-> ExtractorError(Extractors[extension])]
        ELSE [ok |-> TRUE, text |-> file.text,
              extractor |-> Extractors[extension], message |-> ""]

\* ------------------------------------------------------- citation markers

\* " et al." of CITATION_REGEX
PlainEtAlSuffix == <<" ", "e", "t", " ", "a", "l", ".">>

\* mutant: the class of the name has no "&"
NameCharsNoAmpersand == LowerCase \cup UpperCase \cup RegexWhiteSpace \cup {".", "-"}

\* [a-zA-Z\s.&-] of CITATION_REGEX
NameChars == LowerCase \cup UpperCase \cup RegexWhiteSpace \cup {".", "&", "-"}

\* ", \d{4})" tried at position p: the position after it, or 0
YearEnd(s, p) ==
    IF /\ LiteralAt(s, p, <<",", " ">>)
       /\ p + 6 <= Len(s)
       /\ \A j \in (p + 2)..(p + 5) : s[j] \in Digits
       /\ s[p + 6] = ")"
    THEN p + 7 ELSE 0

\* "(?: et al\.)?, \d{4})" tried at position p: the optional group is tried
\* first, and skipped when the rest fails behind it
SuffixEnd(s, p) ==
    LET withEtAl == IF LiteralAt(s, p, PlainEtAlSuffix)
                    THEN YearEnd(s, p + Len(PlainEtAlSuffix)) ELSE 0
    IN  IF withEtAl # 0 THEN withEtAl ELSE YearEnd(s, p)

RECURSIVE NameRun(_, _)
\* the number of characters of NameChars from position p on
NameRun(s, p) ==
    IF p <= Len(s) /\ s[p] \in NameChars THEN 1 + NameRun(s, p + 1) ELSE 0

RECURSIVE NameEnd(_, _, _)
\* "[a-zA-Z\s.&-]+" and the rest of the pattern, tried at position p with k
\* characters, then backtracking to k - 1, ..., 1
NameEnd(s, p, k) ==
    IF k < 1 THEN 0
    ELSE LET e == SuffixEnd(s, p + k)
         IN  IF e # 0 THEN e ELSE NameEnd(s, p, k - 1)

\* CITATION_REGEX tried at position p: the position after the match, or 0
CitationEndAt(s, p) ==
    IF p + 1 <= Len(s) /\ s[p] = "(" /\ s[p + 1] \in UpperCase
    THEN NameEnd(s, p + 2, NameRun(s, p + 2))
    ELSE 0

RECURSIVE CitationMatchesFrom(_, _)
\* the matches of the global CITATION_REGEX from lastIndex on, each as
\* [start, end): the leftmost match, then on from its end
CitationMatchesFrom(s, lastIndex) ==
    IF lastIndex > Len(s) THEN <<>>
    ELSE LET e == CitationEndAt(s, lastIndex)
         IN  IF e # 0
             THEN <<[start |-> lastIndex, end |-> e]>> \o CitationMatchesFrom(s, e)
             ELSE CitationMatchesFrom(s, lastIndex + 1)

\* text.match(CITATION_REGEX) || []
matchCitations(s) ==
    LET m == CitationMatchesFrom(s, 1)
    IN  [i \in 1..Len(m) |-> SubSeq(s, m[i].start, m[i].end - 1)]

RECURSIVE SplitCitationsFrom(_, _, _)
\* String.prototype.split with the piece in progress starting at p and the
\* pattern tried at q; a match that ends at p is skipped
SplitCitationsFrom(s, p, q) ==
    IF q > Len(s) THEN <<SubSeq(s, p, Len(s))>>
    ELSE LET e == CitationEndAt(s, q)
         IN  IF e = 0 \/ e = p
             THEN SplitCitationsFrom(s, p, q + 1)
             ELSE <<SubSeq(s, p, q - 1)>> \o SplitCitationsFrom(s, e, e)

\* text.split(CITATION_REGEX): the pattern has no capturing group
splitCitations(s) == SplitCitationsFrom(s, 1, 1)

RECURSIVE HighlightSpansPerMatch(_, _, _)
\* mutant: one plain span and one highlighted span per match, so that the
\* text behind the last match is left out
HighlightSpansPerMatch(parts, matches, i) ==
    IF i > Len(matches) THEN <<>>
    ELSE <<[text |-> parts[i], highlighted |-> FALSE],
           [text |-> matches[i], highlighted |-> TRUE]>>
         \o HighlightSpansPerMatch(parts, matches, i + 1)

RECURSIVE HighlightSpans(_, _, _)
\* the reduce of lines 65-75 from index i on
HighlightSpans(parts, matches, i) ==
    IF i > Len(parts) THEN <<>>
    ELSE <<[text |-> parts[i], highlighted |-> FALSE]>>
         \o (IF i <= Len(matches) /\ matches[i] # <<>>
             THEN <<[text |-> matches[i], highlighted |-> TRUE]>> ELSE <<>>)
         \o HighlightSpans(parts, matches, i + 1)

\* renderHighlights: the spans of the backdrop, in order
renderHighlights(s) == HighlightSpans(splitCitations(s), matchCitations(s), 1)

\* ---------------------------------------------------------------- emphasis

\* etAlUnicode (geminiService.ts:157): U+1D452 U+1D461 space U+1D44E U+1D459 "."
etAlUnicode == <<"U+1D452", "U+1D461", " ", "U+1D44E", "U+1D459", ".">>

\* the literal of unicodeItalicRegex as the files hold it (App.tsx:301,
\* documentService.ts:147 and 224): thirteen code points and the dot, the
\* bytes of etAlUnicode read as Windows-1252
unicodeItalicRegex ==
    <<"U+00F0", "U+2018", "U+2019", "U+00F0", "U+2018", "U+00A1", " ",
      "U+00F0", "U+2018", "U+017D", "U+00F0", "U+2018", "U+2122", ".">>

\* "et al."
PlainEtAl == <<"e", "t", " ", "a", "l", ".">>

\* "*et al.*"
AsteriskEtAl == <<"*">> \o PlainEtAl \o <<"*">>

\* parsed.inText.replace(/et al\./g, etAlUnicode) (geminiService.ts:158)
replaceEtAl(inText) == ReplaceAll(inText, PlainEtAl, etAlUnicode)

RECURSIVE LazyEnd(_, _)
\* ".*?\*" tried at position q: the closing asterisk is tried before "." takes
\* one more character, and "." takes no line terminator
LazyEnd(s, q) ==
    IF q > Len(s) THEN 0
    ELSE IF s[q] = "*" THEN q + 1
    ELSE IF s[q] \in LineTerminators THEN 0
    ELSE LazyEnd(s, q + 1)

\* /\*.*?\*/ tried at position p: the position after the match, or 0
EmphasisEndAt(s, p) ==
    IF p <= Len(s) /\ s[p] = "*" THEN LazyEnd(s, p + 1) ELSE 0

RECURSIVE SplitEmphasisFrom(_, _, _)
\* String.prototype.split with a capturing group: the captured match follows
\* the piece it ends
SplitEmphasisFrom(s, p, q) ==
    IF q > Len(s) THEN <<SubSeq(s, p, Len(s))>>
    ELSE LET e == EmphasisEndAt(s, q)
         IN  IF e = 0 \/ e = p
             THEN SplitEmphasisFrom(s, p, q + 1)
             ELSE <<SubSeq(s, p, q - 1), SubSeq(s, q, e - 1)>>
                      \o SplitEmphasisFrom(s, e, e)

\* text.split(/(\*.*?\*)/g)
splitEmphasis(s) == SplitEmphasisFrom(s, 1, 1)

\* mutant: slice(1), which leaves the closing asterisk in the run
SliceInteriorFromOne(part) == SubSeq(part, 2, Len(part))

\* part.slice(1, -1)
SliceInterior(part) == SubSeq(part, 2, Len(part) - 1)

\* a run of text: what <em>, <span>, TextRun and a slide text object carry
Run(chars, italic) == [text |-> chars, italic |-> italic]

\* the test and the two branches applied to each part of the split
RunOfPart(part) ==
    IF StartsAndEndsWith(part, "*")
    THEN Run(SliceInterior(part), TRUE)
    ELSE Run(part, FALSE)

\* renderFormattedText (CitationModal.tsx:197-205)
renderFormattedText(s) ==
    LET parts == splitEmphasis(s)
    IN  [i \in 1..Len(parts) |-> RunOfPart(parts[i])]

\* the bibliography entry of print-content (App.tsx:507-511)
printBibliographyEntry(s) ==
    LET parts == splitEmphasis(s)
    IN  [i \in 1..Len(parts) |-> RunOfPart(parts[i])]

\* parseTextToRuns (documentService.ts:144-166)
parseTextToRuns(s) ==
    LET normalized == ReplaceAll(s, unicodeItalicRegex, AsteriskEtAl)
        parts == splitEmphasis(normalized)
    IN  [i \in 1..Len(parts) |-> RunOfPart(parts[i])]

\* parseContentForSlide (documentService.ts:223-238): an empty part that is
\* not italic is left out
parseContentForSlide(s) ==
    LET normalized == ReplaceAll(s, unicodeItalicRegex, AsteriskEtAl)
        parts == splitEmphasis(normalized)
        kept == SelectSeq(parts, LAMBDA part :
                              StartsAndEndsWith(part, "*") \/ part # <<>>)
    IN  [i \in 1..Len(kept) |-> RunOfPart(kept[i])]

RECURSIVE PdfRuns(_, _)
\* the map of lines 303-308 from index i on: the part, then <em>et al.</em>
\* unless the part is the last
PdfRuns(parts, i) ==
    IF i > Len(parts) THEN <<>>
    ELSE <<Run(parts[i], FALSE)>>
         \o (IF i < Len(parts) THEN <<Run(PlainEtAl, TRUE)>> ELSE <<>>)
         \o PdfRuns(parts, i + 1)

\* renderPdfContent (App.tsx:300-309)
renderPdfContent(s) == PdfRuns(SplitLiteral(s, unicodeItalicRegex), 1)

\* ----------------------------------------------------- texts and files

\* "(Smith, 2023)"
SmithCitation ==
    <<"(", "S", "m", "i", "t", "h", ",", " ", "2", "0", "2", "3", ")">>

\* "(Smith et al., 2023)"
SmithEtAlCitation ==
    <<"(", "S", "m", "i", "t", "h", " ", "e", "t", " ", "a", "l", ".", ",",
      " ", "2", "0", "2", "3", ")">>

\* "(Smith & Doe, 2023)"
SmithAndDoeCitation ==
    <<"(", "S", "m", "i", "t", "h", " ", "&", " ", "D", "o", "e", ",", " ",
      "2", "0", "2", "3", ")">>

\* "(Smith 2023)"
NoCommaCitation ==
    <<"(", "S", "m", "i", "t", "h", " ", "2", "0", "2", "3", ")">>

\* "(smith, 2023)"
LowerCaseCitation ==
    <<"(", "s", "m", "i", "t", "h", ",", " ", "2", "0", "2", "3", ")">>

\* "(Smith, 23)"
TwoDigitCitation ==
    <<"(", "S", "m", "i", "t", "h", ",", " ", "2", "3", ")">>

\* "(Smith"
OpenedCitation ==
    <<"(", "S", "m", "i", "t", "h">>

\* "(Jones et al., 2019) and (Lee & Park, 2020)"
TwoCitations ==
    <<"(", "J", "o", "n", "e", "s", " ", "e", "t", " ", "a", "l", ".", ",",
      " ", "2", "0", "1", "9", ")", " ", "a", "n", "d", " ", "(", "L", "e",
      "e", " ", "&", " ", "P", "a", "r", "k", ",", " ", "2", "0", "2", "0",
      ")">>

\* "Evidence shows this (Smith, 2023) clearly."
OneCitationInProse ==
    <<"E", "v", "i", "d", "e", "n", "c", "e", " ", "s", "h", "o", "w", "s",
      " ", "t", "h", "i", "s", " ", "(", "S", "m", "i", "t", "h", ",", " ",
      "2", "0", "2", "3", ")", " ", "c", "l", "e", "a", "r", "l", "y", ".">>

\* "The *Journal of Foo* is great"
JournalOfFoo ==
    <<"T", "h", "e", " ", "*", "J", "o", "u", "r", "n", "a", "l", " ", "o",
      "f", " ", "F", "o", "o", "*", " ", "i", "s", " ", "g", "r", "e", "a",
      "t">>

\* the pieces the texts given to the text functions are made of: citations
\* and near-citations, the in-text citation as formatCitation returns it,
\* asterisks, a line break, and both forms of the italic "et al."
Fragments ==
    { SmithCitation, SmithEtAlCitation, SmithAndDoeCitation, NoCommaCitation,
      LowerCaseCitation, TwoDigitCitation, OpenedCitation,
      replaceEtAl(SmithEtAlCitation),
      <<" ", "a", "n", "d", " ">>, <<"a">>, <<"*">>, <<"\n">>,
      etAlUnicode, unicodeItalicRegex }

\* the number of fragments a text is made of, at most
MaxFragments == 2

\* the texts of at most n fragments
TextsOf(n) ==
    { Concat(fs) : fs \in UNION { [1..k -> Fragments] : k \in 0..n } }

\* the characters the texts with emphasis are made of
EmphasisChars == {"*", "a", "\n"}

\* the length of a text with emphasis, at most
MaxEmphasisLen == 6

\* the texts of at most n characters with emphasis
EmphasisTextsOf(n) == UNION { [1..k -> EmphasisChars] : k \in 0..n }

\* the texts the text functions are applied to
Texts ==
    TextsOf(MaxFragments) \cup EmphasisTextsOf(MaxEmphasisLen)
        \cup {TwoCitations, OneCitationInProse, JournalOfFoo}

\* names of files chosen in the file input
FileNames ==
    { <<"a", ".", "t", "x", "t">>, <<"a", ".", "T", "X", "T">>,
      <<"a", ".", "d", "o", "c", "x">>, <<"a", ".", "D", "o", "c", "x">>,
      <<"a", ".", "d", "o", "c">>, <<"a", ".", "p", "d", "f">>,
      <<"a", ".", "p", "p", "t", "x">>, <<"a", ".", "x", "y", "z">>,
      <<"a", ".", "t", "x", "t", ".", "g", "z">>, <<"t", "x", "t">>,
      <<"a", ".">>, <<"a">> }

\* the files parseDocument is applied to
Files == { File(name, readable, <<"a">>) : name \in FileNames, readable \in BOOLEAN }

\* ------------------------------------------------------------------- Init

\* no text function has been applied on its own
NoCall == [fn |-> "none", kind |-> "none", arg |-> <<>>, result |-> <<>>]

\* the state after construction, in a session followed for n user events
Session(n) ==
    /\ budget = n
    /\ docText = INITIAL_DOCUMENT_TEXT
    /\ bibEntries = <<>>
    /\ historyState = [history |-> <<[text |-> INITIAL_DOCUMENT_TEXT, bib |-> <<>>]>>,
                       index |-> 0]
    /\ timers = {}
    /\ debounceRef = NoTimer
    /\ selection = Null
    /\ isFormatting = FALSE
    /\ pendingFormat = Null
    /\ isProcessingFile = FALSE
    /\ pendingImport = Null
    /\ nextId = 0
    /\ showTooltip = FALSE
    /\ isModalOpen = FALSE
    /\ isLibraryOpen = FALSE
    /\ searchState = [isSearching |-> FALSE, results |-> NoResults, error |-> Null]
    /\ pendingSearches = {}
    /\ searchLog = [issued |-> 0, shown |-> 0]
    /\ library = <<>>
    /\ API_KEY \in BOOLEAN
    /\ crashed = FALSE
    /\ events = 0
    /\ lastOp = "init"
    /\ pre = [index |-> 0, length |-> 1, pending |-> {}]

Start(n) == Session(n) /\ applied = NoCall

\* the state after the App component is constructed
Init == Start(MaxEvents)

\* ---------------------------------------------------------------- actions

\* one more user event is handled
UserEvent ==
    /\ events < budget
    /\ events' = events + 1

\* the history variables record the handler and the state it started in
Ran(op) ==
    /\ budget' = budget
    /\ lastOp' = op
    /\ pre' = [index |-> historyState.index,
               length |-> Len(historyState.history),
               pending |-> {t.text : t \in timers}]

\* handleTextChange: the textarea's value became newText
handleTextChange ==
    \E newText \in TypedTexts :
        /\ ~crashed
        /\ UserEvent
        /\ docText' = newText
        /\ LET kept == cancelDebounce(timers, debounceRef)
               id == FreshTimerId(kept)
           IN  /\ timers' = kept \cup {[id |-> id, text |-> newText, bib |-> bibEntries]}
               /\ debounceRef' = id
        /\ showTooltip' = FALSE
        /\ Ran("type")
        /\ UNCHANGED <<bibEntries, historyState, selection, isFormatting,
                       pendingFormat, isProcessingFile, pendingImport, nextId,
                       crashed, overlays, searchVars, library, API_KEY, applied>>

\* the timeout armed by handleTextChange elapses (lines 131-133)
debounceFire ==
    \E t \in timers :
        /\ ~crashed
        /\ timers' = timers \ {t}
        /\ historyState' = saveToHistory(historyState, t.text, t.bib)
        /\ Ran("timer")
        /\ UNCHANGED <<docText, bibEntries, debounceRef, selection, isFormatting,
                       pendingFormat, isProcessingFile, pendingImport, nextId,
                       crashed, events, showTooltip, overlays, searchVars,
                       library, API_KEY, applied>>

\* handleUndo
handleUndo ==
    /\ ~crashed
    /\ UserEvent
    /\ IF historyState.index > 0
       THEN LET r == UndoResult(historyState)
            IN  /\ timers' = cancelDebounce(timers, debounceRef)
                /\ docText' = r.snapshot.text
                /\ bibEntries' = r.snapshot.bib
                /\ historyState' = [historyState EXCEPT !.index = r.index]
       ELSE UNCHANGED <<timers, docText, bibEntries, historyState>>
    /\ Ran("undo")
    /\ UNCHANGED <<debounceRef, selection, isFormatting, pendingFormat,
                   isProcessingFile, pendingImport, nextId, crashed,
                   showTooltip, overlays, searchVars, library, API_KEY, applied>>

\* handleRedo
handleRedo ==
    /\ ~crashed
    /\ UserEvent
    /\ IF historyState.index < Len(historyState.history) - 1
       THEN LET r == RedoResult(historyState)
            IN  /\ timers' = cancelDebounce(timers, debounceRef)
                /\ docText' = r.snapshot.text
                /\ bibEntries' = r.snapshot.bib
                /\ historyState' = [historyState EXCEPT !.index = r.index]
       ELSE UNCHANGED <<timers, docText, bibEntries, historyState>>
    /\ Ran("redo")
    /\ UNCHANGED <<debounceRef, selection, isFormatting, pendingFormat,
                   isProcessingFile, pendingImport, nextId, crashed,
                   showTooltip, overlays, searchVars, library, API_KEY, applied>>

\* handleMouseUp: the textarea's selection is [start, end); an open dialog
\* covers the page (fixed inset-0 z-50), so the pointer reaches the textarea
\* only when both are closed
handleMouseUp ==
    \E start \in SelectionStarts, end \in SelectionEnds :
        /\ ~crashed
        /\ UserEvent
        /\ ~isModalOpen /\ ~isLibraryOpen
        /\ start <= end /\ end <= Len(docText)
        /\ LET text == Trim(Substring(docText, start, end))
           IN  IF Len(text) > MinSelectionLength
               THEN /\ selection' = [start |-> start, end |-> end, text |-> text]
                    /\ showTooltip' = TRUE
               ELSE /\ selection' = Null
                    /\ showTooltip' = FALSE
        /\ Ran("mouseUp")
        /\ UNCHANGED <<docText, bibEntries, historyState, timers, debounceRef,
                       isFormatting, pendingFormat, isProcessingFile,
                       pendingImport, nextId, crashed, overlays, searchVars,
                       library, API_KEY, applied>>

\* handleCiteClick up to the await of line 168; the "Find Citation" button is
\* rendered while showTooltip
handleCiteClick ==
    /\ ~crashed
    /\ UserEvent
    /\ showTooltip
    /\ IF selection = Null
       THEN /\ Ran("searchSkipped")
            /\ UNCHANGED <<showTooltip, isModalOpen, searchVars>>
       ELSE /\ showTooltip' = FALSE
            /\ isModalOpen' = TRUE
            /\ searchState' = [isSearching |-> TRUE, results |-> NoResults,
                               error |-> Null]
            /\ pendingSearches' = pendingSearches \cup {searchLog.issued + 1}
            /\ searchLog' = [issued |-> searchLog.issued + 1,
                             shown |-> searchLog.issued + 1]
            /\ Ran("searchStart")
    /\ UNCHANGED <<docText, bibEntries, historyState, timers, debounceRef,
                   selection, isFormatting, pendingFormat, isProcessingFile,
                   pendingImport, nextId, crashed, isLibraryOpen, library,
                   API_KEY, applied>>

\* handleCiteClick from line 169 on, once searchForSources has settled
searchSettled ==
    \E call \in pendingSearches, outcome \in searchForSources(API_KEY) :
        /\ ~crashed
        /\ pendingSearches' = pendingSearches \ {call}
        /\ searchLog' = [searchLog EXCEPT !.shown = call]
        /\ IF outcome = Rejected
           THEN /\ searchState' = [isSearching |-> FALSE, results |-> NoResults,
                                   error |-> SearchError]
                /\ Ran("searchRejected")
           ELSE /\ searchState' = [isSearching |-> FALSE,
                                   results |-> outcome.results, error |-> Null]
                /\ Ran(IF outcome.failed THEN "searchFailed" ELSE "searchResolved")
        /\ UNCHANGED <<docText, bibEntries, historyState, timers, debounceRef,
                       selection, isFormatting, pendingFormat, isProcessingFile,
                       pendingImport, nextId, crashed, events, showTooltip,
                       overlays, library, API_KEY, applied>>

\* onClose of CitationModal (line 522)
closeModal ==
    /\ ~crashed
    /\ UserEvent
    /\ isModalOpen
    /\ isModalOpen' = FALSE
    /\ Ran("closeModal")
    /\ UNCHANGED <<docText, bibEntries, historyState, timers, debounceRef,
                   selection, isFormatting, pendingFormat, isProcessingFile,
                   pendingImport, nextId, crashed, showTooltip, isLibraryOpen,
                   searchVars, library, API_KEY, applied>>

\* the Library button (line 347); pressed while the dialog is open it sets
\* the value the state has
openLibrary ==
    /\ ~crashed
    /\ UserEvent
    /\ ~isLibraryOpen
    /\ isLibraryOpen' = TRUE
    /\ Ran("openLibrary")
    /\ UNCHANGED <<docText, bibEntries, historyState, timers, debounceRef,
                   selection, isFormatting, pendingFormat, isProcessingFile,
                   pendingImport, nextId, crashed, showTooltip, isModalOpen,
                   searchVars, library, API_KEY, applied>>

\* onClose of CitationManager (line 532)
closeLibrary ==
    /\ ~crashed
    /\ UserEvent
    /\ isLibraryOpen
    /\ isLibraryOpen' = FALSE
    /\ Ran("closeLibrary")
    /\ UNCHANGED <<docText, bibEntries, historyState, timers, debounceRef,
                   selection, isFormatting, pendingFormat, isProcessingFile,
                   pendingImport, nextId, crashed, showTooltip, isModalOpen,
                   searchVars, library, API_KEY, applied>>

\* handleSaveToLibrary, from a source card of the citation dialog
handleSaveToLibrary ==
    \E source \in ShownResults :
        /\ ~crashed
        /\ UserEvent
        /\ IF InLibrary(library, source)
           THEN /\ Ran("saveConflict")
                /\ UNCHANGED library
           ELSE /\ library' = Append(library, WithId(source, FreshLibraryId(library)))
                /\ Ran("saveToLibrary")
        /\ UNCHANGED <<docText, bibEntries, historyState, timers, debounceRef,
                       selection, isFormatting, pendingFormat, isProcessingFile,
                       pendingImport, nextId, crashed, showTooltip, overlays,
                       searchVars, API_KEY, applied>>

\* onAdd of CitationManager (line 536), with the source ManualEntryForm
\* submits (part_001:37-44)
addManualSource ==
    \E source \in ManualSources :
        /\ ~crashed
        /\ UserEvent
        /\ isLibraryOpen
        /\ library' = Append(library, WithId(source, FreshLibraryId(library)))
        /\ Ran("addManual")
        /\ UNCHANGED <<docText, bibEntries, historyState, timers, debounceRef,
                       selection, isFormatting, pendingFormat, isProcessingFile,
                       pendingImport, nextId, crashed, showTooltip, overlays,
                       searchVars, API_KEY, applied>>

\* mutant: removing a source also removes the bibliography entries citing it
handleRemoveFromLibraryCascade ==
    \E source \in ListedSources, confirmed \in BOOLEAN :
        /\ ~crashed
        /\ UserEvent
        /\ IF confirmed
           THEN /\ library' = SelectSeq(library, LAMBDA s : s.id # source.id)
                /\ bibEntries' = SelectSeq(bibEntries, LAMBDA e : e.source # source)
                /\ Ran("removeFromLibrary")
           ELSE /\ Ran("removeDeclined")
                /\ UNCHANGED <<library, bibEntries>>
        /\ UNCHANGED <<docText, historyState, timers, debounceRef,
                       selection, isFormatting, pendingFormat, isProcessingFile,
                       pendingImport, nextId, crashed, showTooltip, overlays,
                       searchVars, API_KEY, applied>>

\* handleRemoveFromLibrary, from the delete button of a listed source
handleRemoveFromLibrary ==
    \E source \in ListedSources, confirmed \in BOOLEAN :
        /\ ~crashed
        /\ UserEvent
        /\ IF confirmed
           THEN /\ library' = removeById(library, source.id)
                /\ Ran("removeFromLibrary")
           ELSE /\ Ran("removeDeclined")
                /\ UNCHANGED library
        /\ UNCHANGED <<docText, bibEntries, historyState, timers, debounceRef,
                       selection, isFormatting, pendingFormat, isProcessingFile,
                       pendingImport, nextId, crashed, showTooltip, overlays,
                       searchVars, API_KEY, applied>>

\* mutant: the formatting call is issued without looking at the selection
processCitationUnchecked ==
    \E source \in ShownResults \cup ListedSources :
        /\ ~crashed
        /\ UserEvent
        /\ ~isFormatting
        /\ isFormatting' = TRUE
        /\ pendingFormat' = [docText |-> docText, bibEntries |-> bibEntries,
                             selection |-> selection, source |-> source]
        /\ Ran("citeStart")
        /\ UNCHANGED <<docText, bibEntries, historyState, timers, debounceRef,
                       selection, isProcessingFile, pendingImport, nextId, crashed,
                       showTooltip, overlays, searchVars, library, API_KEY, applied>>

\* processCitation up to the await of line 188; the "Cite this" and "Cite in
\* Doc" controls are disabled while isFormatting
processCitation ==
    \E source \in ShownResults \cup ListedSources :
        /\ ~crashed
        /\ UserEvent
        /\ ~CiteDisabled(isFormatting)
        /\ IF selection = Null
           THEN /\ Ran("citeRejected")
                /\ UNCHANGED <<isFormatting, pendingFormat>>
           ELSE /\ isFormatting' = TRUE
                /\ pendingFormat' = [docText |-> docText, bibEntries |-> bibEntries,
                                     selection |-> selection, source |-> source]
                /\ Ran("citeStart")
        /\ UNCHANGED <<docText, bibEntries, historyState, timers, debounceRef,
                       selection, isProcessingFile, pendingImport, nextId, crashed,
                       showTooltip, overlays, searchVars, library, API_KEY, applied>>

\* processCitation from line 190 on, once formatCitation has resolved; it
\* reads docText, selection and bibEntries from its closure
formatResolved ==
    /\ ~crashed
    /\ pendingFormat # Null
    /\ \E result \in formatCitation(pendingFormat.source, API_KEY),
          sortThrows \in BOOLEAN :
           IF result = Rejected
           THEN \* caught at line 217 before any setter ran
                /\ ~sortThrows
                /\ Ran("formatRejected")
                /\ UNCHANGED <<docText, bibEntries, historyState, timers,
                               selection, nextId, crashed, overlays>>
           ELSE
           LET c == pendingFormat
               newText == InsertedText(c.docText, c.selection, result.inText)
               exists == BibExists(c.bibEntries, result.bibliography)
               newBibs == IF exists THEN c.bibEntries
                          ELSE WithNewEntry(c.bibEntries, nextId + 1,
                                            result.bibliography, c.source)
               \* the comparator runs once the array has two elements; given
               \* an entry without text it throws or compares "undefined", by
               \* the argument order the engine's sort uses
               mayThrow == /\ ~exists
                           /\ result.bibliography = Undefined
                           /\ c.bibEntries # <<>>
               \* rendering an entry without text throws (CitationModal.tsx:198)
               renderThrows == ~exists /\ result.bibliography = Undefined
           IN  /\ sortThrows => mayThrow
               /\ IF sortThrows
                  THEN \* caught at line 217, after setDocText(newText)
                       /\ docText' = newText
                       /\ Ran("citeFailed")
                       /\ UNCHANGED <<bibEntries, historyState, timers, selection,
                                      nextId, crashed, overlays>>
                  ELSE IF renderThrows
                  THEN /\ crashed' = TRUE
                       /\ Ran("citeCrashed")
                       /\ UNCHANGED <<docText, bibEntries, historyState, timers,
                                      selection, nextId, overlays>>
                  ELSE /\ docText' = newText
                       /\ bibEntries' = IF exists THEN bibEntries ELSE newBibs
                       /\ nextId' = IF exists THEN nextId ELSE nextId + 1
                       /\ timers' = cancelDebounce(timers, debounceRef)
                       /\ historyState' = saveToHistory(historyState, newText, newBibs)
                       /\ isModalOpen' = FALSE
                       /\ isLibraryOpen' = FALSE
                       /\ selection' = Null
                       /\ Ran(IF result = FormatFallback(c.source)
                              THEN "citeFallback" ELSE "citeApplied")
                       /\ UNCHANGED crashed
    /\ isFormatting' = FALSE
    /\ pendingFormat' = Null
    /\ UNCHANGED <<debounceRef, isProcessingFile, pendingImport, events,
                   showTooltip, searchVars, library, API_KEY, applied>>

\* handleFileUpload up to the await of line 246; the upload button is
\* disabled while isProcessingFile
handleFileUpload ==
    \E file \in ImportFiles :
        /\ ~crashed
        /\ UserEvent
        /\ ~isProcessingFile
        /\ isProcessingFile' = TRUE
        /\ pendingImport' = [file |-> file, bibEntries |-> bibEntries]
        /\ Ran("importStart")
        /\ UNCHANGED <<docText, bibEntries, historyState, timers, debounceRef,
                       selection, isFormatting, pendingFormat, nextId, crashed,
                       showTooltip, overlays, searchVars, library, API_KEY, applied>>

\* handleFileUpload from line 247 on, once parseDocument has settled
fileParsed ==
    \E confirmNewBib \in BOOLEAN :
        /\ ~crashed
        /\ pendingImport # Null
        /\ LET c == pendingImport
               parsed == parseDocument(c.file)
               newBibs == IF confirmNewBib THEN <<>> ELSE c.bibEntries
           IN  IF parsed.ok
               THEN /\ docText' = parsed.text
                    /\ bibEntries' = IF confirmNewBib THEN <<>> ELSE bibEntries
                    /\ timers' = cancelDebounce(timers, debounceRef)
                    /\ historyState' = saveToHistory(historyState, parsed.text, newBibs)
                    /\ Ran("importApplied")
               ELSE /\ ~confirmNewBib
                    /\ Ran("importFailed")
                    /\ UNCHANGED <<docText, bibEntries, timers, historyState>>
        /\ isProcessingFile' = FALSE
        /\ pendingImport' = Null
        /\ UNCHANGED <<debounceRef, selection, isFormatting, pendingFormat,
                       nextId, crashed, events, showTooltip, overlays,
                       searchVars, library, API_KEY, applied>>

\* handleClearBib; the Clear button is rendered only for a non-empty
\* bibliography (Bibliography, CitationModal.tsx:215)
handleClearBib ==
    \E confirmed \in BOOLEAN :
        /\ ~crashed
        /\ UserEvent
        /\ bibEntries # <<>>
        /\ IF confirmed
           THEN /\ bibEntries' = <<>>
                /\ timers' = cancelDebounce(timers, debounceRef)
                /\ historyState' = saveToHistory(historyState, docText, <<>>)
                /\ Ran("clearBib")
           ELSE /\ Ran("clearDeclined")
                /\ UNCHANGED <<bibEntries, timers, historyState>>
        /\ UNCHANGED <<docText, debounceRef, selection, isFormatting,
                       pendingFormat, isProcessingFile, pendingImport, nextId,
                       crashed, showTooltip, overlays, searchVars, library,
                       API_KEY, applied>>

Next ==
    \/ handleTextChange
    \/ debounceFire
    \/ handleUndo
    \/ handleRedo
    \/ handleMouseUp
    \/ handleCiteClick
    \/ searchSettled
    \/ closeModal
    \/ openLibrary
    \/ closeLibrary
    \/ handleSaveToLibrary
    \/ addManualSource
    \/ handleRemoveFromLibrary
    \/ processCitation
    \/ formatResolved
    \/ handleFileUpload
    \/ fileParsed
    \/ handleClearBib

Spec == Init /\ [][Next]_vars

\* a session in which the user only selects text, searches, cites and uses
\* undo and redo, followed for more events
CiteInit == Start(MaxCiteEvents)

CiteNext ==
    \/ handleMouseUp
    \/ handleCiteClick
    \/ searchSettled
    \/ processCitation
    \/ formatResolved
    \/ handleUndo
    \/ handleRedo

CiteSpec == CiteInit /\ [][CiteNext]_vars

\* the text functions of rendering, export and import, each applied on its
\* own to a text or a file
TextInit ==
    /\ Session(0)
    /\ applied \in [fn : {"none"}, kind : {"text"}, arg : Texts, result : {<<>>}]
                   \cup [fn : {"none"}, kind : {"file"}, arg : Files, result : {<<>>}]

\* fn is applied to the argument, which is of the kind it takes
Apply(fn, kind, result) ==
    /\ applied.kind = kind
    /\ applied' = [applied EXCEPT !.fn = fn, !.result = result]
    /\ UNCHANGED appVars

\* the post-processing of parsed.inText (geminiService.ts:158)
applyReplaceEtAl ==
    Apply("replaceEtAl", "text", replaceEtAl(applied.arg))

\* text.match(CITATION_REGEX) || [] (App.tsx:63)
applyMatchCitations ==
    Apply("matchCitations", "text", matchCitations(applied.arg))

\* renderHighlights(docText) (App.tsx:461)
applyRenderHighlights ==
    Apply("renderHighlights", "text", renderHighlights(applied.arg))

\* renderFormattedText(entry.text) (CitationModal.tsx:254)
applyRenderFormattedText ==
    Apply("renderFormattedText", "text", renderFormattedText(applied.arg))

\* the bibliography entry of print-content (App.tsx:507)
applyPrintBibliographyEntry ==
    Apply("printBibliographyEntry", "text", printBibliographyEntry(applied.arg))

\* parseTextToRuns(line) and parseTextToRuns(entry.text)
\* (documentService.ts:172, 192)
applyParseTextToRuns ==
    Apply("parseTextToRuns", "text", parseTextToRuns(applied.arg))

\* parseContentForSlide(para) and parseContentForSlide(entry.text)
\* (documentService.ts:257, 283)
applyParseContentForSlide ==
    Apply("parseContentForSlide", "text", parseContentForSlide(applied.arg))

\* renderPdfContent(docText) (App.tsx:497)
applyRenderPdfContent ==
    Apply("renderPdfContent", "text", renderPdfContent(applied.arg))

\* parseDocument(file) (App.tsx:246)
applyParseDocument ==
    Apply("parseDocument", "file", parseDocument(applied.arg))

TextNext ==
    \/ applyReplaceEtAl
    \/ applyMatchCitations
    \/ applyRenderHighlights
    \/ applyRenderFormattedText
    \/ applyPrintBibliographyEntry
    \/ applyParseTextToRuns
    \/ applyParseContentForSlide
    \/ applyRenderPdfContent
    \/ applyParseDocument

TextSpec == TextInit /\ [][TextNext]_vars

\* ----------------------------------------------------------------- claims

\* the handlers that record a snapshot immediately (lines 212, 256, 270)
ImmediateOps == {"citeApplied", "citeFallback", "importApplied", "clearBib"}

\* a citation was inserted: the continuation of processCitation ran to line 216
CiteOps == {"citeApplied", "citeFallback"}

\* the entries of a bibliography
EntriesOf(bib) == {bib[i] : i \in 1..Len(bib)}

\* the snapshots of the log and the live state, as (text, bib) candidates
SnapshotsOf(h) == {h.history[i] : i \in 1..Len(h.history)}

\* C1: in every reachable state 0 <= index < length of the log; the Undo
\* button is enabled exactly when index > 0 and the Redo button exactly when
\* index < length - 1.
C1_HistoryIndexInRange ==
    /\ 0 <= historyState.index
    /\ historyState.index < Len(historyState.history)
    /\ (~UndoDisabled) <=> (historyState.index > 0)
    /\ (~RedoDisabled) <=> (historyState.index < Len(historyState.history) - 1)

\* C1 witness: after pushes and an undo, both undo and redo are available
C1_Witness ==
    /\ lastOp = "undo"
    /\ historyState.index > 0
    /\ historyState.index < Len(historyState.history) - 1

\* C2 (as claimed): whenever undo is available, undo immediately followed
\* by redo leaves the live text and the live bibliography as they were.
C2_UndoThenRedoRestores ==
    (~crashed /\ historyState.index > 0) =>
        LET u == UndoResult(historyState)
            r == RedoResult([historyState EXCEPT !.index = u.index])
        IN  /\ r.snapshot.text = docText
            /\ r.snapshot.bib = bibEntries

\* C3 (as claimed): after a citation insertion, an import or a bibliography
\* clear, a single undo (which does nothing at index 0) leaves the live text
\* and bibliography as they were immediately before the operation.
C3_ImmediateOpThenUndoRestores ==
    [][lastOp' \in ImmediateOps =>
          LET h == historyState'
              undone == IF h.index > 0
                        THEN UndoResult(h).snapshot
                        ELSE [text |-> docText', bib |-> bibEntries']
          IN  /\ undone.text = docText
              /\ undone.bib = bibEntries]_vars

\* C4 (as claimed): an immediate record performed while index is not the
\* last position discards every snapshot after index, appends one snapshot
\* and leaves index at the last position, so that redo is unavailable.
C4_ImmediateRecordTruncates ==
    [][(lastOp' \in ImmediateOps /\ ~RedoDisabled) =>
          /\ Len(historyState'.history) = historyState.index + 2
          /\ SubSeq(historyState'.history, 1, historyState.index + 1)
                = SubSeq(historyState.history, 1, historyState.index + 1)
          /\ historyState'.index = Len(historyState'.history) - 1]_vars

\* C4 (amended): an immediate record performed while index is not the last
\* position either is skipped, the snapshot at index already having the new
\* text, and leaves log and index unchanged, or discards every snapshot
\* after index, appends one snapshot that differs from the one at index and
\* leaves index at the last position.
C4_ImmediateRecordTruncatesUnlessSame ==
    [][(lastOp' \in ImmediateOps /\ ~RedoDisabled) =>
          \/ /\ historyState' = historyState
             /\ CurrentSnapshot(historyState).text = docText'
          \/ /\ Len(historyState'.history) = historyState.index + 2
             /\ SubSeq(historyState'.history, 1, historyState.index + 1)
                   = SubSeq(historyState.history, 1, historyState.index + 1)
             /\ historyState'.index = Len(historyState'.history) - 1
             /\ CurrentSnapshot(historyState').text = docText'
             /\ CurrentSnapshot(historyState') # CurrentSnapshot(historyState)]_vars

\* C4 witness: an immediate record started before the end of the log and cut
\* the redo entries off
C4_Witness ==
    /\ lastOp \in ImmediateOps
    /\ pre.index < pre.length - 1
    /\ Len(historyState.history) = pre.index + 2
    /\ historyState.index = pre.index + 1

\* C5: a push of a candidate with the text and the bibliography content of
\* the snapshot at index leaves log and index unchanged; any other push
\* appends exactly one snapshot after position index and sets index to the
\* new last position.
C5_PushDedupOrAppend ==
    LET h == historyState
        texts == {docText} \cup TypedTexts \cup {s.text : s \in SnapshotsOf(h)}
        bibs == {bibEntries, <<>>} \cup {s.bib : s \in SnapshotsOf(h)}
                    \cup {t.bib : t \in timers}
    IN  \A text \in texts, bib \in bibs :
            LET r == saveToHistory(h, text, bib)
            IN  IF text = CurrentSnapshot(h).text /\ bib = CurrentSnapshot(h).bib
                THEN r = h
                ELSE /\ r.history = Append(SubSeq(h.history, 1, h.index + 1),
                                           [text |-> text, bib |-> bib])
                     /\ r.index = h.index + 1
                     /\ r.index = Len(r.history) - 1

\* C5 witness: a push was made with a candidate identical to the snapshot at
\* index, where the bibliography is not empty, and was skipped
C5_Witness ==
    /\ lastOp \in ImmediateOps \cup {"timer"}
    /\ historyState.index = pre.index
    /\ Len(historyState.history) = pre.length
    /\ CurrentSnapshot(historyState).bib # <<>>

\* C6: a burst of text-change events, each arriving while the timeout of the
\* previous one is pending, leaves exactly one timeout pending, carrying the
\* text of the last event, and records nothing while it lasts; when that
\* timeout elapses exactly one push is made, of the text of the last event
\* (a push which, as every push, appends one snapshot after index unless the
\* snapshot at index is identical); no other step arms a timeout.
C6_BurstCoalesced ==
    [][/\ Cardinality(timers') <= 1
       /\ lastOp' = "type" =>
             /\ Cardinality(timers') = 1
             /\ \A t \in timers' : t.text = docText'
             /\ historyState' = historyState
       /\ lastOp' = "timer" =>
             \E t \in timers :
                 /\ timers' = {}
                 /\ IF CurrentSnapshot(historyState) = [text |-> t.text, bib |-> t.bib]
                    THEN historyState' = historyState
                    ELSE /\ historyState'.history =
                                Append(SubSeq(historyState.history, 1,
                                              historyState.index + 1),
                                       [text |-> t.text, bib |-> t.bib])
                         /\ historyState'.index = Len(historyState'.history) - 1
       /\ lastOp' \notin {"type", "timer"} => timers' \subseteq timers]_vars

\* C6 witness: a text-change event arrived while the timeout of the previous
\* one, of another text, was pending; the one timeout pending afterwards
\* carries the later text
C6_Witness ==
    /\ lastOp = "type"
    /\ pre.pending # {}
    /\ docText \notin pre.pending
    /\ \E t \in timers : timers = {t} /\ t.text = docText

\* C7: after every immediate history push (citation insertion, import,
\* bibliography clear) no coalescing timeout is pending, so a timeout armed
\* before the push cannot fire after it.
C7_ImmediateCancelsTimer ==
    lastOp \in ImmediateOps => timers = {}

\* C7 witness: an immediate push was made while a timeout was pending
C7_Witness ==
    /\ lastOp \in ImmediateOps
    /\ pre.pending # {}
    /\ timers = {}
    /\ Len(historyState.history) = pre.length + 1

\* C8: undo at index 0 changes nothing; undo at index > 0 decrements index
\* by one, sets the live text and bibliography to the snapshot at the new
\* index, leaves the log's snapshots unchanged and leaves no timeout pending.
C8_Undo ==
    [][lastOp' = "undo" =>
          IF historyState.index = 0
          THEN UNCHANGED <<docText, bibEntries, historyState, timers>>
          ELSE /\ historyState'.index = historyState.index - 1
               /\ historyState'.history = historyState.history
               /\ docText' = CurrentSnapshot(historyState').text
               /\ bibEntries' = CurrentSnapshot(historyState').bib
               /\ timers' = {}]_vars

\* C8 witness: undo acted at index > 0 while typed text was waiting for its
\* timeout
C8_Witness ==
    /\ lastOp = "undo"
    /\ pre.index > 0
    /\ pre.pending # {}
    /\ historyState.index = pre.index - 1
    /\ docText # historyState.history[pre.index + 1].text

\* C9: redo at the newest index changes nothing; redo at index < length - 1
\* increments index by one, sets the live text and bibliography to the
\* snapshot at the new index and leaves the log's snapshots unchanged.
C9_Redo ==
    [][lastOp' = "redo" =>
          IF historyState.index >= Len(historyState.history) - 1
          THEN UNCHANGED <<docText, bibEntries, historyState, timers>>
          ELSE /\ historyState'.index = historyState.index + 1
               /\ historyState'.history = historyState.history
               /\ docText' = CurrentSnapshot(historyState').text
               /\ bibEntries' = CurrentSnapshot(historyState').bib]_vars

\* C9 witness: redo acted below the newest index and changed the live state
C9_Witness ==
    /\ lastOp = "redo"
    /\ pre.index < pre.length - 1
    /\ historyState.index = pre.index + 1
    /\ CurrentSnapshot(historyState) # historyState.history[pre.index + 1]

\* no two entries have the same text, and the texts are in non-decreasing
\* order of localeCompare
SortedUnique(bib) ==
    \A i, j \in 1..Len(bib) :
        i < j => /\ bib[i].text # bib[j].text
                 /\ localeCompare(bib[i].text, bib[j].text) <= 0

\* C10: in every reachable state the live bibliography and the bibliography
\* of every snapshot of the log have no two entries with the same text and
\* are in non-decreasing order of text.
C10_BibliographySortedUnique ==
    /\ SortedUnique(bibEntries)
    /\ \A s \in SnapshotsOf(historyState) : SortedUnique(s.bib)

\* C10 witness: an inserted citation's entry was sorted in front of an older
\* entry
C10_Witness ==
    /\ lastOp = "citeApplied"
    /\ Len(bibEntries) = 2
    /\ bibEntries[1].id > bibEntries[2].id
    /\ CurrentSnapshot(historyState).bib = bibEntries

\* C11 (as claimed): a citation insertion adds no entry whose text an entry
\* of the bibliography already has: when the bibliography string equals the
\* text of an existing entry, the entries, their ids and their order are
\* unchanged, while the in-text citation is spliced into the document.
C11_ExistingTextLeavesBibliography ==
    [][lastOp' \in CiteOps =>
          /\ \A e \in EntriesOf(bibEntries') \ EntriesOf(bibEntries) :
                 ~BibExists(bibEntries, e.text)
          /\ Len(docText') > Len(pendingFormat.docText)]_vars

\* C12: a successful citation insertion started on document text D with
\* selection end e and resolved with in-text citation c sets the document
\* text to D[0..e) + sep + c + D[e..), sep being empty or one space, the text
\* after the selection following the citation directly; when the
\* bibliography string is new, the bibliography the insertion started with
\* gains exactly one entry, with that string as its text.  ("Hello world",
\* 11, "(Doe, 2024)") yields "Hello world (Doe, 2024)".
C12_InsertionSplices ==
    [][/\ InsertedText(<<"H", "e", "l", "l", "o", " ", "w", "o", "r", "l", "d">>,
                       [start |-> 6, end |-> 11],
                       <<"(", "D", "o", "e", ",", " ", "2", "0", "2", "4", ")">>)
              = <<"H", "e", "l", "l", "o", " ", "w", "o", "r", "l", "d", " ",
                  "(", "D", "o", "e", ",", " ", "2", "0", "2", "4", ")">>
       /\ lastOp' \in CiteOps =>
             LET D == pendingFormat.docText
                 e == pendingFormat.selection.end
                 B == pendingFormat.bibEntries
                 src == pendingFormat.source
                 added == EntriesOf(bibEntries') \ EntriesOf(B)
             IN  /\ \E sep \in {<<>>, <<" ">>},
                       c \in InTexts \cup {FallbackInText(src)} :
                        docText' = SubSeq(D, 1, Min(e, Len(D))) \o sep \o c
                                       \o SubSeq(D, Min(e, Len(D)) + 1, Len(D))
                 /\ \/ bibEntries' = bibEntries
                    \/ /\ Cardinality(added) = 1
                       /\ Len(bibEntries') = Len(B) + 1
                       /\ EntriesOf(B) \subseteq EntriesOf(bibEntries')
                       /\ \A a \in added :
                              /\ a.text \in BibTexts \cup {FallbackBibliography(src)}
                              /\ ~BibExists(B, a.text)
                              /\ a.source = src]_vars

\* C12 witness: the citation "(A)" was inserted after the selection "Global"
\* and the bibliography gained its entry
C12_Witness ==
    /\ lastOp = "citeApplied"
    /\ docText = INITIAL_DOCUMENT_TEXT \o <<" ", "(", "A", ")">>
    /\ Len(bibEntries) = 1
    /\ bibEntries[1].text \in BibTexts

\* C13 (as claimed): the separator a citation insertion places between
\* `before`, the text up to the selection end, and the in-text citation is
\* exactly one space, unless `before` ends with a space, a tab or a newline,
\* in which case there is no separator.
C13_SeparatorUnlessWhitespace ==
    [][lastOp' \in CiteOps =>
          LET D == pendingFormat.docText
              e == Min(pendingFormat.selection.end, Len(D))
              before == SubSeq(D, 1, e)
              after == SubSeq(D, e + 1, Len(D))
              sep == IF before # <<>> /\ before[Len(before)] \in WhiteSpace
                     THEN <<>> ELSE <<" ">>
          IN  \E c \in InTexts \cup {FallbackInText(pendingFormat.source)} :
                  docText' = before \o sep \o c \o after]_vars

\* C14: a citation insertion invoked while there is no selection anchor is
\* rejected before a formatting call is issued and changes nothing: document
\* text, bibliography, history log, index and the formatting flag are as
\* before, and no formatting call is in flight.
C14_NoSelectionRejected ==
    [][(selection = Null /\ lastOp' \in {"citeStart", "citeRejected"}) =>
          /\ lastOp' = "citeRejected"
          /\ pendingFormat' = Null
          /\ isFormatting' = FALSE
          /\ UNCHANGED <<docText, bibEntries, historyState, timers, selection,
                         isFormatting, overlays, library>>]_vars

\* C14 witness: "Cite in Doc" was pressed in the library with no selection
C14_Witness ==
    /\ lastOp = "citeRejected"
    /\ selection = Null
    /\ isLibraryOpen
    /\ library # <<>>
    /\ ~isFormatting

\* C15 (as claimed): when a formatting call resolves after the context it
\* was issued in is gone (both dialogs are closed, or the document text or
\* the selection is no longer what it was when the call was issued), the
\* result is discarded: document text, bibliography and history are not
\* modified by the resolution.
C15_StaleResultDiscarded ==
    [][(/\ pendingFormat # Null
        /\ pendingFormat' = Null
        /\ \/ ~isModalOpen /\ ~isLibraryOpen
           \/ docText # pendingFormat.docText
           \/ selection # pendingFormat.selection)
          => UNCHANGED <<docText, bibEntries, historyState>>]_vars

\* C16 (as claimed): whenever an import, an undo, a redo or a citation
\* insertion changes the document text, and whenever a citation insertion
\* completes, no selection anchor remains afterwards.
C16_SelectionCleared ==
    [][/\ (lastOp' \in {"importApplied", "undo", "redo"} /\ docText' # docText)
           => selection' = Null
       /\ lastOp' \in CiteOps => selection' = Null]_vars

\* C17 (as claimed): whichever way the formatting call fails (the request
\* throws, the response is empty or unparseable, the key is missing), the
\* insertion proceeds with the fallback citation built from the source: the
\* fallback in-text citation is spliced into the document, the bibliography
\* has an entry with the fallback text and the history has the new state.
C17_FailureYieldsFallback ==
    [][lastOp' \in {"formatRejected", "citeFallback"} =>
          LET c == pendingFormat
          IN  /\ docText' = InsertedText(c.docText, c.selection,
                                         FallbackInText(c.source))
              /\ BibExists(bibEntries', FallbackBibliography(c.source))
              /\ CurrentSnapshot(historyState').text = docText']_vars

\* C18 (as claimed): when a search call has failed (the request threw, the
\* response was unparseable, the key is missing) the search state is not
\* searching, has empty results and a non-null error message; after an empty
\* well-formed response it has empty results and no error.
C18_SearchFailureReported ==
    /\ lastOp \in {"searchFailed", "searchRejected"} =>
           /\ ~searchState.isSearching
           /\ searchState.results = NoResults
           /\ searchState.error # Null
    /\ (lastOp = "searchResolved" /\ searchState.results = NoResults) =>
           /\ ~searchState.isSearching
           /\ searchState.error = Null

\* C19: when the import of a file fails (its extension is not supported or
\* its content cannot be read), the live document text, the bibliography,
\* the history log and the index are left as they were, no timeout is
\* cancelled, and the file-processing flag returns to false; starting the
\* import changes none of them either.
C19_FailedImportChangesNothing ==
    [][/\ (/\ pendingImport # Null
            /\ pendingImport' = Null
            /\ \/ Extension(pendingImport.file.name) \notin DOMAIN Extractors
               \/ ~pendingImport.file.readable)
              => /\ UNCHANGED <<docText, bibEntries, historyState, timers>>
                 /\ isProcessingFile' = FALSE
       /\ (pendingImport = Null /\ pendingImport' # Null)
              => UNCHANGED <<docText, bibEntries, historyState, timers>>]_vars

\* C19 witness: an import failed in a session that had a bibliography entry
\* and more than one snapshot to lose
C19_Witness ==
    /\ lastOp = "importFailed"
    /\ ~isProcessingFile
    /\ historyState.index > 0
    /\ bibEntries # <<>>

\* C20 (as claimed): in every reachable state no two entries of the source
\* library have the same url and no two have the same title.
C20_LibraryDeduplicated ==
    \A i, j \in 1..Len(library) :
        i < j => /\ library[i].url # library[j].url
                 /\ library[i].title # library[j].title

\* C21: while a formatting call is in flight the formatting flag is set and no
\* step, from the search dialog or from the library, issues a second
\* formatting call; the flag is cleared when the call settles.
C21_OneFormattingCall ==
    [][/\ pendingFormat # Null => lastOp' # "citeStart"
       /\ (pendingFormat' # Null) <=> isFormatting']_vars

\* C21 witness: while a formatting call was in flight the user opened the
\* library, whose listed sources can be cited, and a selection is in place
C21_Witness ==
    /\ pendingFormat # Null
    /\ isFormatting
    /\ lastOp = "openLibrary"
    /\ ListedSources # {}
    /\ selection # Null

\* C22 (as claimed): in every reachable state the searching flag is set
\* exactly when a search call is outstanding and the formatting flag exactly
\* when a formatting call is outstanding; once no search call is outstanding
\* the search state is the one written for the search issued last.
C22_InFlightStatusAccurate ==
    /\ searchState.isSearching <=> pendingSearches # {}
    /\ isFormatting <=> pendingFormat # Null
    /\ pendingSearches = {} => searchLog.shown = searchLog.issued

\* C23: every step (typing, citation insertion, clear, import, undo, redo,
\* library operations, timeouts) leaves the snapshots at positions 0..index
\* of the log as they were; the log either is unchanged or is cut after
\* index and extended by one snapshot.  (The arrays a snapshot refers to are
\* never written in place: lines 88 and 206 copy before push and sort.)
C23_SnapshotsNeverAltered ==
    [][LET h == historyState
           after == historyState'
       IN  /\ Len(after.history) >= h.index + 1
           /\ SubSeq(after.history, 1, h.index + 1)
                  = SubSeq(h.history, 1, h.index + 1)
           /\ \/ after.history = h.history
              \/ Len(after.history) = h.index + 2]_vars

\* C23 witness: the bibliography was cleared, and the snapshot recorded
\* before still has its entries
C23_Witness ==
    /\ lastOp = "clearBib"
    /\ bibEntries = <<>>
    /\ historyState.index >= 2
    /\ historyState.history[historyState.index].bib # <<>>

\* C24: a step that changes the history log or the index (undo, redo, every
\* push) and every undo and redo leave the library unchanged; a step that
\* changes the library (save, manual add, remove) leaves the document text,
\* the bibliography, the history log and the index unchanged; no snapshot
\* holds a library.
C24_LibraryNotHistorized ==
    [][/\ (historyState' # historyState \/ lastOp' \in {"undo", "redo"})
           => library' = library
       /\ library' # library
           => /\ lastOp' \in {"saveToLibrary", "addManual", "removeFromLibrary"}
              /\ UNCHANGED <<docText, bibEntries, historyState>>
       /\ \A snap \in SnapshotsOf(historyState') :
              DOMAIN snap = {"text", "bib"}]_vars

\* C24 witness: undo took back the insertion of a citation while the library
\* held a source, and the library still holds it
C24_Witness ==
    /\ lastOp = "undo"
    /\ pre.index > 0
    /\ historyState.index = pre.index - 1
    /\ bibEntries = <<>>
    /\ library # <<>>
    /\ \E s \in SnapshotsOf(historyState) : s.bib # <<>>

\* the form of a citation marker: "(", an uppercase letter, k >= 1 characters
\* that are letters, white space, ".", "&" or "-", optionally " et al.", then
\* ", ", exactly four digits and ")"
IsMarkerForm(s) ==
    \E k \in 1..Len(s), etAl \in {<<>>, <<" ", "e", "t", " ", "a", "l", ".">>} :
        /\ Len(s) = 2 + k + Len(etAl) + 7
        /\ s[1] = "("
        /\ s[2] \in UpperCase
        /\ \A j \in 3..(2 + k) :
               s[j] \in UpperCase \cup LowerCase \cup RegexWhiteSpace \cup {".", "&", "-"}
        /\ SubSeq(s, 3 + k, 2 + k + Len(etAl)) = etAl
        /\ SubSeq(s, Len(s) - 6, Len(s) - 5) = <<",", " ">>
        /\ \A j \in (Len(s) - 4)..(Len(s) - 1) : s[j] \in Digits
        /\ s[Len(s)] = ")"

\* C25: every match of the citation-marker detector has the marker form; a
\* text that has the marker form is matched whole; a text in which nothing
\* is matched has no part of the marker form.  (Smith, 2023), (Smith et al.,
\* 2023) and (Smith & Doe, 2023) are matched; (Smith 2023), (smith, 2023)
\* and (Smith, 23) are not; "(Jones et al., 2019) and (Lee & Park, 2020)"
\* has exactly the two matches, in left-to-right order.
C25_DetectorMatchesMarkerForm ==
    /\ \A marker \in {SmithCitation, SmithEtAlCitation, SmithAndDoeCitation} :
           matchCitations(marker) = <<marker>>
    /\ \A other \in {NoCommaCitation, LowerCaseCitation, TwoDigitCitation} :
           matchCitations(other) = <<>>
    /\ matchCitations(TwoCitations)
           = <<SubSeq(TwoCitations, 1, 20), SubSeq(TwoCitations, 26, 43)>>
    /\ applied.fn = "matchCitations" =>
           LET found == applied.result
               T == applied.arg
           IN  /\ \A i \in 1..Len(found) : IsMarkerForm(found[i])
               /\ IsMarkerForm(T) => found = <<T>>
               /\ found = <<>> =>
                      \A a, b \in 1..Len(T) : ~IsMarkerForm(SubSeq(T, a, b))

\* C25 witness: the detector was applied to the text of two citations and
\* found both
C25_Witness ==
    /\ applied.fn = "matchCitations"
    /\ applied.arg = TwoCitations
    /\ Len(applied.result) = 2
    /\ applied.result[1][2] = "J"
    /\ applied.result[2][2] = "L"

\* the text a sequence of runs stands for: each italic run between two
\* asterisks, each other run as it is
Marked(runs) ==
    Concat([i \in 1..Len(runs) |->
               IF runs[i].italic THEN <<"*">> \o runs[i].text \o <<"*">>
               ELSE runs[i].text])

\* C26 (as claimed): for every text, the runs of the on-screen bibliography,
\* of the print bibliography and of parseTextToRuns have no empty italic run,
\* and putting the asterisks back around the italic runs gives the text the
\* split was applied to: a run is italic only if the text has it between two
\* asterisks, and every other asterisk is in a run as literal text.
C26_EmphasisSplitKeepsText ==
    applied.fn \in {"renderFormattedText", "printBibliographyEntry",
                    "parseTextToRuns"} =>
        LET runs == applied.result
            T == IF applied.fn = "parseTextToRuns"
                 THEN ReplaceAll(applied.arg, unicodeItalicRegex, AsteriskEtAl)
                 ELSE applied.arg
        IN  /\ \A i \in 1..Len(runs) : runs[i].italic => runs[i].text # <<>>
            /\ Marked(runs) = T

\* runs without the empty ones
NonEmptyRuns(runs) == SelectSeq(runs, LAMBDA r : r.text # <<>>)

\* the text has one paragraph: exportToWord and exportToPptx render a text
\* paragraph by paragraph (documentService.ts:169, 241)
OneParagraph(s) == \A i \in 1..Len(s) : s[i] \notin LineTerminators

\* C27 (as claimed): for every text of one paragraph, taken as document text
\* the Word renderer, the slide renderer and the print renderer produce the
\* same runs up to empty runs, and taken as the text of a bibliography entry
\* the Word renderer, the slide renderer, the print renderer and the
\* on-screen bibliography renderer produce the same runs up to empty runs.
C27_RenderersAgree ==
    (applied.fn = "parseTextToRuns" /\ OneParagraph(applied.arg)) =>
        LET T == applied.arg
            word == NonEmptyRuns(applied.result)
        IN  /\ word = NonEmptyRuns(parseContentForSlide(T))
            /\ word = NonEmptyRuns(renderPdfContent(T))
            /\ word = NonEmptyRuns(printBibliographyEntry(T))
            /\ word = NonEmptyRuns(renderFormattedText(T))

\* the number of places of s at which lit occurs
Occurrences(s, lit) == Cardinality({p \in 1..Len(s) : LiteralAt(s, p, lit)})

\* C28 (as claimed): for every text that holds the Unicode "et al." token as
\* formatCitation writes it into an in-text citation, the runs each export
\* path (Word, slides, print) produces hold the token nowhere, and have an
\* italic run "et al." for every occurrence of the token in the text.
C28_TokenExportedAsItalic ==
    applied.fn \in {"parseTextToRuns", "parseContentForSlide",
                    "renderPdfContent"} =>
        LET runs == applied.result
            tokens == Occurrences(applied.arg, etAlUnicode)
        IN  /\ \A i \in 1..Len(runs) : Occurrences(runs[i].text, etAlUnicode) = 0
            /\ Cardinality({i \in 1..Len(runs) : runs[i] = Run(PlainEtAl, TRUE)})
                   >= tokens

\* C29 (as claimed): parseDocument dispatches a file whose extension, in
\* lower case, is docx, doc, pdf, pptx or txt to a text extractor; for every
\* other extension it fails without calling an extractor, with a message
\* that ends with the extension.
C29_ImportDispatch ==
    applied.fn = "parseDocument" =>
        LET outcome == applied.result
            extension == Extension(applied.arg.name)
        IN  IF extension \in AcceptedExtensions
            THEN /\ outcome.extractor # "none"
                 /\ outcome.ok = applied.arg.readable
            ELSE /\ ~outcome.ok
                 /\ outcome.extractor = "none"
                 /\ outcome.message = "Unsupported file type: ." \o Str(extension)

\* C30: for every text, the matches of the detector are non-empty, within
\* the text, non-overlapping and in left-to-right order; the texts of the
\* spans renderHighlights produces, concatenated in order, are the text; the
\* highlighted spans are the matches, in order, each at the offset of its
\* match, and each has the marker form.
C30_HighlightsReproduceText ==
    applied.fn = "renderHighlights" =>
        LET spans == applied.result
            T == applied.arg
            m == CitationMatchesFrom(T, 1)
            lit == SelectSeq(spans, LAMBDA span : span.highlighted)
            Offset(i) == Len(Concat([j \in 1..(i - 1) |-> spans[j].text]))
            Rank(i) == Cardinality({j \in 1..i : spans[j].highlighted})
        IN  /\ \A i \in 1..Len(m) :
                   /\ 1 <= m[i].start
                   /\ m[i].start < m[i].end
                   /\ m[i].end <= Len(T) + 1
            /\ \A i, j \in 1..Len(m) : i < j => m[i].end <= m[j].start
            /\ Concat([i \in 1..Len(spans) |-> spans[i].text]) = T
            /\ [i \in 1..Len(lit) |-> lit[i].text] = matchCitations(T)
            /\ \A i \in 1..Len(spans) :
                   spans[i].highlighted =>
                       /\ IsMarkerForm(spans[i].text)
                       /\ Offset(i) + 1 = m[Rank(i)].start

\* C30 witness: the backdrop of "Evidence shows this (Smith, 2023) clearly."
\* has the citation highlighted between the two plain spans
C30_Witness ==
    /\ applied.fn = "renderHighlights"
    /\ applied.arg = OneCitationInProse
    /\ Len(applied.result) = 3
    /\ applied.result[2] = [text |-> SmithCitation, highlighted |-> TRUE]
    /\ ~applied.result[1].highlighted
    /\ ~applied.result[3].highlighted
    /\ applied.result[3].text # <<>>

\* the positions of the asterisks of a text
Asterisks(s) == {p \in 1..Len(s) : s[p] = "*"}

\* the position of the n-th asterisk
NthAsterisk(s, n) ==
    CHOOSE p \in Asterisks(s) : Cardinality({q \in Asterisks(s) : q <= p}) = n

\* the number of pairs the asterisks of a text form, first with second,
\* third with fourth
Pairs(s) == Cardinality(Asterisks(s)) \div 2

\* the asterisks form balanced pairs with non-empty interiors
BalancedEmphasis(s) ==
    /\ Cardinality(Asterisks(s)) % 2 = 0
    /\ \A k \in 1..Pairs(s) : NthAsterisk(s, 2 * k) > NthAsterisk(s, 2 * k - 1) + 1

\* no line break stands between the two asterisks of a pair
PairsOnOneLine(s) ==
    \A k \in 1..Pairs(s) :
        \A p \in NthAsterisk(s, 2 * k - 1)..NthAsterisk(s, 2 * k) :
            s[p] \notin LineTerminators

\* the segments of a text with balanced emphasis: the interiors of the pairs
\* as italic segments, the non-empty stretches around them as plain ones
EmphasisSegments(s) ==
    LET n == Pairs(s)
        opening(k) == IF k > n THEN Len(s) + 1 ELSE NthAsterisk(s, 2 * k - 1)
        closing(k) == IF k = 0 THEN 0 ELSE NthAsterisk(s, 2 * k)
        segment(j) ==
            IF j % 2 = 1
            THEN Run(SubSeq(s, closing(j \div 2) + 1, opening(j \div 2 + 1) - 1), FALSE)
            ELSE Run(SubSeq(s, opening(j \div 2) + 1, closing(j \div 2) - 1), TRUE)
        all == [j \in 1..(2 * n + 1) |-> segment(j)]
    IN  SelectSeq(all, LAMBDA r : r.italic \/ r.text # <<>>)

\* the segments of "The *Journal of Foo* is great"
JournalOfFooSegments ==
    << Run(SubSeq(JournalOfFoo, 1, 4), FALSE),
       Run(SubSeq(JournalOfFoo, 6, 19), TRUE),
       Run(SubSeq(JournalOfFoo, 21, 29), FALSE) >>

\* the text the emphasis of applied.arg is split in: parseTextToRuns first
\* puts "*et al.*" for the literal of unicodeItalicRegex
SplitText ==
    IF applied.fn = "parseTextToRuns"
    THEN ReplaceAll(applied.arg, unicodeItalicRegex, AsteriskEtAl)
    ELSE applied.arg

\* C31 (as claimed): for every text whose asterisks form balanced pairs with
\* non-empty interiors, the runs of renderFormattedText and parseTextToRuns
\* are, up to empty plain runs, the plain and italic segments of the text in
\* order, the italic ones without their asterisks; "The *Journal of Foo* is
\* great" yields exactly plain "The ", italic "Journal of Foo", plain
\* " is great".
C31_BalancedEmphasisSplit ==
    applied.fn \in {"renderFormattedText", "parseTextToRuns"} =>
        /\ applied.arg = JournalOfFoo => applied.result = JournalOfFooSegments
        /\ BalancedEmphasis(SplitText) =>
               /\ \A i \in 1..Len(applied.result) :
                      applied.result[i].text = <<>> => ~applied.result[i].italic
               /\ NonEmptyRuns(applied.result) = EmphasisSegments(SplitText)

\* C31 (amended): the same for every text whose asterisks form balanced
\* pairs with non-empty interiors and no line break between the two
\* asterisks of a pair.
C31_BalancedEmphasisSplitOnOneLine ==
    applied.fn \in {"renderFormattedText", "parseTextToRuns"} =>
        /\ applied.arg = JournalOfFoo => applied.result = JournalOfFooSegments
        /\ (BalancedEmphasis(SplitText) /\ PairsOnOneLine(SplitText)) =>
               /\ \A i \in 1..Len(applied.result) :
                      applied.result[i].text = <<>> => ~applied.result[i].italic
               /\ NonEmptyRuns(applied.result) = EmphasisSegments(SplitText)

\* C31 witness: parseTextToRuns split "The *Journal of Foo* is great" in its
\* three segments
C31_Witness ==
    /\ applied.fn = "parseTextToRuns"
    /\ applied.arg = JournalOfFoo
    /\ BalancedEmphasis(applied.arg)
    /\ Len(applied.result) = 3
    /\ applied.result[2] = Run(SubSeq(JournalOfFoo, 6, 19), TRUE)

\* the ids of the sources of a library
IdsOf(lib) == {lib[i].id : i \in 1..Len(lib)}

\* C32: every source of the library has an id and a dateAdded, whether it
\* was saved from the search results or entered by hand; no two sources of
\* the library have the same id; removing by an id removes the one source
\* that has it, and leaves the library as it is when no source has it.
C32_LibrarySourcesIdentified ==
    /\ \A i \in 1..Len(library) :
           /\ {"id", "dateAdded"} \subseteq DOMAIN library[i]
           /\ library[i].id \in Nat
           /\ library[i].dateAdded \in Nat
    /\ \A i, j \in 1..Len(library) : i # j => library[i].id # library[j].id
    /\ \A id \in 0..(MaxEvents + 1) :
           LET after == removeById(library, id)
           IN  /\ Len(after) >= Len(library) - 1
               /\ id \notin IdsOf(library) => after = library
               /\ id \in IdsOf(library) =>
                      /\ Len(after) = Len(library) - 1
                      /\ id \notin IdsOf(after)

\* C32 witness: the library holds a source saved from the search results
\* and one entered by hand
C32_Witness ==
    /\ Len(library) = 2
    /\ library[1].url = SearchSource.url
    /\ \E source \in ManualSources : library[2].url = source.url
    /\ library[1].id # library[2].id

\* C33 (as claimed): whenever no timeout of handleTextChange is pending and
\* neither a formatting call nor an import is in flight, the snapshot at the
\* index of the log has the text of the document and the bibliography shown.
C33_SnapshotAtIndexIsLiveState ==
    (timers = {} /\ pendingFormat = Null /\ pendingImport = Null) =>
        /\ CurrentSnapshot(historyState).text = docText
        /\ CurrentSnapshot(historyState).bib = bibEntries

\* t is s with one string put in at one place
InsertedInto(s, t) ==
    /\ Len(t) >= Len(s)
    /\ \E p \in 0..Len(s) :
           /\ SubSeq(t, 1, p) = SubSeq(s, 1, p)
           /\ SubSeq(t, Len(t) - (Len(s) - p) + 1, Len(t)) = SubSeq(s, p + 1, Len(s))

\* C34 (as claimed): when the continuation of processCitation inserts a
\* citation, the new document text is the text of the document at that
\* moment with the citation put in, and the new bibliography is the
\* bibliography of that moment, with at most one entry more: what was typed,
\* imported, cleared, undone or redone while the call was in flight stays.
C34_InsertionAppliedToLiveState ==
    [][(pendingFormat # Null /\ lastOp' \in CiteOps) =>
           /\ InsertedInto(docText, docText')
           /\ EntriesOf(bibEntries) \subseteq EntriesOf(bibEntries')
           /\ Len(bibEntries') <= Len(bibEntries) + 1]_vars

\* C35 (as claimed): a redo that follows an edit of the text, before the
\* timeout of the edit has fired or after it, leaves the typed text in the
\* document: the snapshots an undo left ahead of the index are not put back
\* over it.
C35_RedoAfterEditKeepsText ==
    [][(lastOp' = "redo" /\ lastOp \in {"type", "timer"}) => docText' = docText]_vars

\* C36 (as claimed): whenever there is a selection, 0 <= start <= end <=
\* length of the document text, and its text is the trimmed substring of
\* the document between start and end.
C36_SelectionValidForDocument ==
    selection # Null =>
        /\ 0 <= selection.start
        /\ selection.start <= selection.end
        /\ selection.end <= Len(docText)
        /\ selection.text = Trim(Substring(docText, selection.start, selection.end))

\* C37 (as claimed): when the continuation of processCitation has run, for
\* whatever the formatting call returned, either the document text, the
\* bibliography and the log are as they were, or the citation was inserted:
\* the text changed and the snapshot at the index of the log has the new
\* text and the new bibliography.
C37_InsertionAllOrNothing ==
    [][(pendingFormat # Null /\ pendingFormat' = Null) =>
           \/ UNCHANGED <<docText, bibEntries, historyState>>
           \/ /\ lastOp' \in CiteOps
              /\ docText' # docText
              /\ CurrentSnapshot(historyState').text = docText'
              /\ CurrentSnapshot(historyState').bib = bibEntries']_vars

\* C38 (as claimed): an in-text citation the detector matches whole as the
\* formatting response has it is matched whole as formatCitation returns
\* it, with the Unicode token for "et al.", and the backdrop shows it as one
\* highlighted span (between plain spans without text).
C38_InsertedCitationDetected ==
    (applied.fn = "replaceEtAl" /\ matchCitations(applied.arg) = <<applied.arg>>) =>
        /\ matchCitations(applied.result) = <<applied.result>>
        /\ SelectSeq(renderHighlights(applied.result), LAMBDA span : span.text # <<>>)
               = <<[text |-> applied.result, highlighted |-> TRUE]>>

\* two snapshots are identical: the same text and the same bibliography
\* content
SameSnapshot(a, b) ==
    a.text = b.text /\ jsonStringify(a.bib) = jsonStringify(b.bib)

\* C39: in every reachable state no snapshot of the log is identical to
\* the snapshot after it, so the snapshot an undo or a redo moves to differs
\* from the one at the index it leaves.
C39_NoIdenticalNeighbours ==
    \A i \in 1..(Len(historyState.history) - 1) :
        ~SameSnapshot(historyState.history[i], historyState.history[i + 1])

\* C39 witness: with three snapshots in the log, a timeout fired with the
\* text and bibliography of the snapshot at the index, and nothing was pushed
C39_Witness ==
    /\ lastOp = "timer"
    /\ Len(historyState.history) = 3
    /\ pre.length = 3
    /\ pre.index = 2
    /\ historyState.index = 2
    /\ CurrentSnapshot(historyState).text \in pre.pending

====
